---- MODULE Spec2Model ----
(***************************************************************************)
(* The two request builders of the shadow-drive client,                    *)
(*   Client::claim_stake               (src/src/client/claim_stake.rs)     *)
(*   ShadowDriveClient::reduce_storage (src/src/client/reduce_storage.rs)  *)
(* called from several caller threads that share one client handle, and    *)
(* the remote ledger node they talk to.  Every caller thread owns a frame  *)
(* (the locals of the call it is running); a call advances one statement   *)
(* group at a time, so that the steps of concurrent calls interleave.      *)
(***************************************************************************)
EXTENDS Integers, Sequences, FiniteSets, TLC

\* ------------------------------------------------------------------ bounds

\* Calls started over a behaviour (a thread starts a new call when its
\* previous one has returned).
MaxCalls == 2

\* Caller threads sharing the handle.
Threads == {"t1", "t2"}

\* Storage account keys the callers pass, and the owners the chain may hold.
Keys == {"sa1", "sa2"}
Owners == {"alice", "bob"}

\* ----------------------------------------------------------- option, result

None == <<>>
Some(v) == <<v>>
IsSome(o) == Len(o) = 1
Unwrap(o) == o[1]

Ok(v) == [tag |-> "Ok", val |-> <<v>>]
Err(e) == [tag |-> "Err", val |-> <<e>>]
IsOk(r) == r.tag = "Ok"
IsErr(r) == r.tag = "Err"

\* ------------------------------------------------------- constants (crate)

PROGRAM_ADDRESS == "shdw_program"
STORAGE_CONFIG_PDA == "storage_config_pda"
TOKEN_MINT == "shdw_mint"
EMISSIONS == "emissions"
SystemProgramID == "system_program"
TokenProgramID == "spl_token"
RentID == "sysvar_rent"
Confirmed == "confirmed"

\* ------------------------------------------------------ sizes: u128 and u64

\* Byte::get_bytes is a u128; it is kept as 8 little-endian limbs of 16 bits,
\* a u64 as 4 such limbs.
U64Limbs == 4
U128Limbs == 2 * U64Limbs
MaxLimb == 2^16 - 1

ZeroBytes == [i \in 1..U128Limbs |-> 0]
OneMB == [i \in 1..U128Limbs |-> IF i = 1 THEN 16960 ELSE IF i = 2 THEN 15 ELSE 0]
U64MaxBytes == [i \in 1..U128Limbs |-> IF i <= U64Limbs THEN MaxLimb ELSE 0]
TwoTo64 == [i \in 1..U128Limbs |-> IF i = U64Limbs + 1 THEN 1 ELSE 0]
HighLimbOnly == [i \in 1..U128Limbs |-> IF i = U128Limbs THEN 1 ELSE 0]
U128MaxBytes == [i \in 1..U128Limbs |-> MaxLimb]

\* The sizes the callers pass to reduce_storage.
Sizes == {ZeroBytes, OneMB, U64MaxBytes, TwoTo64, HighLimbOnly, U128MaxBytes}

\* a > b on limb sequences of equal length (most significant limb last).
RECURSIVE GreaterFrom(_, _, _)
GreaterFrom(a, b, i) ==
    IF i = 0 THEN FALSE
    ELSE IF a[i] # b[i] THEN a[i] > b[i]
    ELSE GreaterFrom(a, b, i - 1)

Greater(a, b) == GreaterFrom(a, b, Len(a))

\* u128 -> u64 by `as`: the low limbs, whatever the high ones hold.
TruncateToU64(n) == Ok(SubSeq(n, 1, U64Limbs))

\* u128::try_into::<u64>(): the low limbs when the high ones are all zero.
TryIntoU64(n) ==
    IF \A i \in (U64Limbs + 1)..U128Limbs : n[i] = 0
    THEN Ok(SubSeq(n, 1, U64Limbs))
    ELSE Err("TryFromIntError")

\* A u64 read back as a byte count.
U64AsBytes(u) == u \o [i \in 1..(U128Limbs - U64Limbs) |-> 0]

\* ------------------------------------------------ signatures and their text

\* The signatures the node may answer with (bytes, most significant first).
Signatures == {<<0, 1>>, <<255, 255>>}

Base58Alphabet == <<
    "1", "2", "3", "4", "5", "6", "7", "8", "9", "A", "B", "C", "D", "E", "F",
    "G", "H", "J", "K", "L", "M", "N", "P", "Q", "R", "S", "T", "U", "V", "W",
    "X", "Y", "Z", "a", "b", "c", "d", "e", "f", "g", "h", "i", "j", "k", "m",
    "n", "o", "p", "q", "r", "s", "t", "u", "v", "w", "x", "y", "z">>

RECURSIVE BytesValue(_)
BytesValue(b) ==
    IF Len(b) = 0 THEN 0 ELSE 256 * BytesValue(SubSeq(b, 1, Len(b) - 1)) + b[Len(b)]

RECURSIVE LeadingZeros(_)
LeadingZeros(b) ==
    IF Len(b) = 0 \/ b[1] # 0 THEN 0 ELSE 1 + LeadingZeros(Tail(b))

RECURSIVE Base58Digits(_)
Base58Digits(n) ==
    IF n = 0 THEN <<>>
    ELSE Append(Base58Digits(n \div 58), Base58Alphabet[(n % 58) + 1])

\* Signature::to_string: base58, one "1" per leading zero byte.
Base58(b) == [i \in 1..LeadingZeros(b) |-> "1"] \o Base58Digits(BytesValue(b))

\* --------------------------------------------------------- derived addresses

\* derived_addresses::{unstake_account, unstake_info, stake_account}: program
\* addresses found from a fixed seed and the storage account key.
unstake_account(key) == <<"unstake-account", key, PROGRAM_ADDRESS>>
unstake_info(key) == <<"unstake-info", key, PROGRAM_ADDRESS>>
stake_account(key) == <<"stake-account", key, PROGRAM_ADDRESS>>

\* spl_associated_token_account::get_associated_token_address.
get_associated_token_address(wallet_address, mint) ==
    <<"associated-token-account", wallet_address, TokenProgramID, mint>>

\* --------------------------------------------------------------------- state

VARIABLES
    client,     \* the handle: [wallet, rpc_client], shared by every call
    chain,      \* the remote node's storage accounts: key -> owner_1
    frame,      \* per caller thread: the locals of its current call
    rpc,        \* per caller thread: what its current call asked the node, and the answers
    started     \* calls started so far

vars == <<client, chain, frame, rpc, started>>

\* The locals of a call before it assigns them.
NewFrame(op, key, size, seq) ==
    [ pc |-> "start", op |-> op, storage_account_key |-> key, size |-> size,
      seq |-> seq, wallet_pubkey |-> None, size_as_bytes |-> None,
      selected_account |-> None, unstake_account |-> None,
      unstake_info |-> None, stake_account |-> None, owner_ata |-> None,
      emissions_ata |-> None, instruction |-> None, txn |-> None,
      txn_result |-> None, result |-> None, trace |-> <<>> ]

IdleFrame == [NewFrame("none", "none", ZeroBytes, 0) EXCEPT !.pc = "idle"]

Init ==
    /\ client = [wallet |-> [pubkey |-> "alice"], rpc_client |-> "node"]
    /\ chain \in [Keys -> Owners]
    /\ frame = [t \in Threads |-> IdleFrame]
    /\ rpc = [t \in Threads |-> <<>>]
    /\ started = 0

Event(step, ok) == [step |-> step, ok |-> ok]

\* A request as the node sees it, with its answer.
Request(method, params, reply) == [method |-> method, params |-> params, reply |-> reply]

\* ------------------------------------------------------------ the remote node

\* Client::get_storage_account: the account record as the chain holds it now,
\* or the node's failure.
get_storage_account(key) ==
    {Ok([owner_1 |-> chain[key]]), Err("account fetch failed")}

\* RpcClient::get_latest_blockhash.
get_latest_blockhash == {Ok("blockhash"), Err("network error")}

\* RpcClient::send_and_confirm_transaction_with_spinner_and_commitment.
send_and_confirm_transaction_with_spinner_and_commitment(txn, commitment) ==
    {Ok(sig) : sig \in Signatures} \cup {Err("network error"), Err("transaction rejected")}

\* The chain moves on between (and during) calls: an account changes owner.
OwnerChange(key, owner) ==
    /\ chain[key] # owner
    /\ chain' = [chain EXCEPT ![key] = owner]
    /\ UNCHANGED <<client, frame, rpc, started>>

\* ------------------------------------------------------------- shared pieces

\* `?` on an Err with a retry instead of a return: the step stays enabled.
RetryOnErr(f, step, e) == [f EXCEPT !.trace = Append(@, Event(step, FALSE))]

\* `?` on an Err: the call returns the error at once.
Propagate(f, step, e) ==
    [f EXCEPT !.pc = "returned", !.result = Some(Err(e)),
              !.trace = Append(@, Event(step, FALSE))]

\* Transaction::new_signed_with_payer(&[instruction], Some(payer), signers, blockhash)
new_signed_with_payer(instructions, payer, signers, recent_blockhash) ==
    [ instructions |-> instructions, payer |-> payer,
      recent_blockhash |-> recent_blockhash,
      signatures |-> [i \in 1..Len(signers) |-> signers[i].pubkey] ]

\* The commitment level below Confirmed.
CommitmentProcessed == [commitment |-> "processed"]

CommitmentConfig == [commitment |-> Confirmed]

\* ------------------------------------------------------------ both functions

\* The owner another call's fetch of the same account returned, when there is
\* one (a record kept from call to call), else this call's own.
OwnerKeptFromOtherCall(f) ==
    LET others == {u \in Threads : /\ frame[u].seq # f.seq
                                   /\ frame[u].seq # 0
                                   /\ frame[u].storage_account_key = f.storage_account_key
                                   /\ IsSome(frame[u].selected_account)}
    IN  IF others = {}
        THEN Unwrap(f.selected_account).owner_1
        ELSE Unwrap(frame[CHOOSE u \in others : TRUE].selected_account).owner_1

\* selected_account.owner_1 / selected_storage_acct.owner_1
OwnerField(f) == Unwrap(f.selected_account).owner_1

\* ShdwDriveResponse { txid: txn_result.to_string() }
ShdwDriveResponse(txn_result) == [txid |-> Base58(txn_result)]

\* ------------------------------------------------------------- claim_stake

\* claim_stake(&self, storage_account_key) is entered.
ClaimStake_Call(t, key) ==
    /\ frame[t].pc \in {"idle", "returned"}
    /\ started < MaxCalls
    /\ started' = started + 1
    /\ frame' = [frame EXCEPT ![t] = NewFrame("claim_stake", key, ZeroBytes, started + 1)]
    /\ rpc' = [rpc EXCEPT ![t] = <<>>]
    /\ UNCHANGED <<client, chain>>

\* let wallet_pubkey = wallet.pubkey();
\* let selected_account = self.get_storage_account(storage_account_key).await?;
ClaimStake_Fetch(t) ==
    /\ frame[t].pc = "start"
    /\ frame[t].op = "claim_stake"
    /\ \E reply \in get_storage_account(frame[t].storage_account_key) :
        /\ rpc' = [rpc EXCEPT ![t] = Append(@,
                Request("get_storage_account", <<frame[t].storage_account_key>>, reply))]
        /\ LET f == [frame[t] EXCEPT !.wallet_pubkey = Some(client.wallet.pubkey)]
           IN  frame' = [frame EXCEPT ![t] =
                   IF IsOk(reply)
                   THEN [f EXCEPT !.pc = "fetched",
                                  !.selected_account = reply.val,
                                  !.trace = Append(@, Event("fetch", TRUE))]
                   ELSE Propagate(f, "fetch", reply.val[1])]
    /\ UNCHANGED <<client, chain, started>>

\* The addresses derived on entry, before the account is fetched (the order in
\* which the specification lists the steps).
ClaimStake_DeriveBeforeFetch(t) ==
    /\ frame[t].pc = "start"
    /\ frame[t].op = "claim_stake"
    /\ frame[t].trace = <<>>
    /\ LET f == frame[t]
       IN  frame' = [frame EXCEPT ![t] =
               [f EXCEPT !.unstake_account = Some(unstake_account(f.storage_account_key)),
                         !.unstake_info = Some(unstake_info(f.storage_account_key)),
                         !.owner_ata = Some(get_associated_token_address(
                                                client.wallet.pubkey, TOKEN_MINT)),
                         !.trace = Append(@, Event("derive", TRUE))]]
    /\ UNCHANGED <<client, chain, rpc, started>>

\* The unstake addresses derived from the fetched owner instead of the
\* storage account key.
ClaimStake_DeriveFromOwner(t) ==
    /\ frame[t].pc = "fetched"
    /\ frame[t].op = "claim_stake"
    /\ LET f == frame[t]
           seed == Unwrap(f.selected_account).owner_1
       IN  frame' = [frame EXCEPT ![t] =
               [f EXCEPT !.pc = "derived",
                         !.unstake_account = Some(unstake_account(seed)),
                         !.unstake_info = Some(unstake_info(seed)),
                         !.owner_ata = Some(get_associated_token_address(
                                                Unwrap(f.wallet_pubkey), TOKEN_MINT)),
                         !.trace = Append(@, Event("derive", TRUE))]]
    /\ UNCHANGED <<client, chain, rpc, started>>

\* let unstake_account = unstake_account(&storage_account_key).0;
\* let unstake_info_account = unstake_info(&storage_account_key).0;
\* let owner_ata = get_associated_token_address(&wallet_pubkey, &TOKEN_MINT);
ClaimStake_Derive(t) ==
    /\ frame[t].pc = "fetched"
    /\ frame[t].op = "claim_stake"
    /\ LET f == frame[t]
       IN  frame' = [frame EXCEPT ![t] =
               [f EXCEPT !.pc = "derived",
                         !.unstake_account = Some(unstake_account(f.storage_account_key)),
                         !.unstake_info = Some(unstake_info(f.storage_account_key)),
                         !.owner_ata = Some(get_associated_token_address(
                                                Unwrap(f.wallet_pubkey), TOKEN_MINT)),
                         !.trace = Append(@, Event("derive", TRUE))]]
    /\ UNCHANGED <<client, chain, rpc, started>>

\* shdw_drive_accounts::ClaimStake { .. }
ClaimStakeAccounts(f) ==
    [ storage_config |-> STORAGE_CONFIG_PDA,
      storage_account |-> f.storage_account_key,
      unstake_info |-> Unwrap(f.unstake_info),
      unstake_account |-> Unwrap(f.unstake_account),
      owner |-> OwnerField(f),
      owner_ata |-> Unwrap(f.owner_ata),
      token_mint |-> TOKEN_MINT,
      system_program |-> SystemProgramID,
      token_program |-> TokenProgramID ]

\* let accounts = ..; let args = ClaimStake {}; let instruction = Instruction { .. };
ClaimStake_Build(t) ==
    /\ frame[t].pc = "derived"
    /\ frame[t].op = "claim_stake"
    /\ LET f == frame[t]
       IN  frame' = [frame EXCEPT ![t] =
               [f EXCEPT !.pc = "built",
                         !.instruction = Some(
                             [ program_id |-> PROGRAM_ADDRESS,
                               accounts |-> ClaimStakeAccounts(f),
                               data |-> [ix |-> "ClaimStake", remove_storage |-> None] ]),
                         !.trace = Append(@, Event("build", TRUE))]]
    /\ UNCHANGED <<client, chain, rpc, started>>

\* let txn = Transaction::new_signed_with_payer(&[instruction], Some(&wallet_pubkey),
\*     &[&self.wallet], self.rpc_client.get_latest_blockhash()?);
ClaimStake_Sign(t) ==
    /\ frame[t].pc = "built"
    /\ frame[t].op = "claim_stake"
    /\ \E reply \in get_latest_blockhash :
        /\ rpc' = [rpc EXCEPT ![t] = Append(@, Request("get_latest_blockhash", <<>>, reply))]
        /\ LET f == frame[t]
           IN  frame' = [frame EXCEPT ![t] =
                   IF IsOk(reply)
                   THEN [f EXCEPT !.pc = "signed",
                                  !.txn = Some(new_signed_with_payer(
                                              <<Unwrap(f.instruction)>>, f.wallet_pubkey,
                                              <<client.wallet>>, reply.val[1])),
                                  !.trace = @ \o <<Event("blockhash", TRUE),
                                                   Event("sign", TRUE)>>]
                   ELSE Propagate(f, "blockhash", reply.val[1])]
    /\ UNCHANGED <<client, chain, started>>

\* A send that moves the handle to another node when the submission fails.
ClaimStake_SendWithFailover(t) ==
    /\ frame[t].pc = "signed"
    /\ frame[t].op = "claim_stake"
    /\ LET f == frame[t]
           txn == Unwrap(f.txn)
       IN  \E reply \in send_and_confirm_transaction_with_spinner_and_commitment(
                            txn, CommitmentConfig) :
            /\ rpc' = [rpc EXCEPT ![t] = Append(@,
                    Request("send_and_confirm", <<txn, CommitmentConfig>>, reply))]
            /\ frame' = [frame EXCEPT ![t] =
                   IF IsOk(reply)
                   THEN [f EXCEPT !.pc = "confirmed",
                                  !.txn_result = reply.val,
                                  !.trace = Append(@, Event("submit", TRUE))]
                   ELSE Propagate(f, "submit", reply.val[1])]
            /\ client' = IF IsOk(reply) THEN client
                         ELSE [client EXCEPT !.rpc_client = "fallback node"]
    /\ UNCHANGED <<chain, started>>

\* let txn_result = self.rpc_client
\*     .send_and_confirm_transaction_with_spinner_and_commitment(&txn, Confirmed)?;
ClaimStake_Send(t) ==
    /\ frame[t].pc = "signed"
    /\ frame[t].op = "claim_stake"
    /\ LET f == frame[t]
           txn == Unwrap(f.txn)
       IN  \E reply \in send_and_confirm_transaction_with_spinner_and_commitment(
                            txn, CommitmentConfig) :
            /\ rpc' = [rpc EXCEPT ![t] = Append(@,
                    Request("send_and_confirm", <<txn, CommitmentConfig>>, reply))]
            /\ frame' = [frame EXCEPT ![t] =
                   IF IsOk(reply)
                   THEN [f EXCEPT !.pc = "confirmed",
                                  !.txn_result = reply.val,
                                  !.trace = Append(@, Event("submit", TRUE))]
                   ELSE Propagate(f, "submit", reply.val[1])]
    /\ UNCHANGED <<client, chain, started>>

\* Ok(ShdwDriveResponse { txid: txn_result.to_string() })
ClaimStake_Respond(t) ==
    /\ frame[t].pc = "confirmed"
    /\ frame[t].op = "claim_stake"
    /\ LET f == frame[t]
       IN  frame' = [frame EXCEPT ![t] =
               [f EXCEPT !.pc = "returned",
                         !.result = Some(Ok(ShdwDriveResponse(Unwrap(f.txn_result)))),
                         !.trace = Append(@, Event("respond", TRUE))]]
    /\ UNCHANGED <<client, chain, rpc, started>>

\* ----------------------------------------------------------- reduce_storage

\* reduce_storage(&self, storage_account_key, size) is entered.
ReduceStorage_Call(t, key, size) ==
    /\ frame[t].pc \in {"idle", "returned"}
    /\ started < MaxCalls
    /\ started' = started + 1
    /\ frame' = [frame EXCEPT ![t] = NewFrame("reduce_storage", key, size, started + 1)]
    /\ rpc' = [rpc EXCEPT ![t] = <<>>]
    /\ UNCHANGED <<client, chain>>

\* size.get_bytes(): the byte count of a Byte, as a u128.
get_bytes(size) == size

\* let size_as_bytes: u64 = size.get_bytes().try_into().map_err(|_| Error::InvalidStorage)?;
ReduceStorage_Validate(t) ==
    /\ frame[t].pc = "start"
    /\ frame[t].op = "reduce_storage"
    /\ LET f == frame[t]
           converted == TryIntoU64(get_bytes(f.size))
       IN  frame' = [frame EXCEPT ![t] =
               IF IsOk(converted)
               THEN [f EXCEPT !.pc = "validated",
                              !.size_as_bytes = converted.val,
                              !.trace = Append(@, Event("validate", TRUE))]
               ELSE Propagate(f, "validate", "InvalidStorage")]
    /\ UNCHANGED <<client, chain, rpc, started>>

\* let wallet_pubkey = self.wallet.pubkey();
\* let selected_storage_acct = self.get_storage_account(storage_account_key).await?;
ReduceStorage_Fetch(t) ==
    /\ frame[t].pc = "validated"
    /\ frame[t].op = "reduce_storage"
    /\ \E reply \in get_storage_account(frame[t].storage_account_key) :
        /\ rpc' = [rpc EXCEPT ![t] = Append(@,
                Request("get_storage_account", <<frame[t].storage_account_key>>, reply))]
        /\ LET f == [frame[t] EXCEPT !.wallet_pubkey = Some(client.wallet.pubkey)]
           IN  frame' = [frame EXCEPT ![t] =
                   IF IsOk(reply)
                   THEN [f EXCEPT !.pc = "fetched",
                                  !.selected_account = reply.val,
                                  !.trace = Append(@, Event("fetch", TRUE))]
                   ELSE Propagate(f, "fetch", reply.val[1])]
    /\ UNCHANGED <<client, chain, started>>

\* owner_ata taken as the token address of the fetched owner instead of the
\* wallet's.
ReduceStorage_DeriveOwnerAta(t) ==
    /\ frame[t].pc = "fetched"
    /\ frame[t].op = "reduce_storage"
    /\ LET f == frame[t]
       IN  frame' = [frame EXCEPT ![t] =
               [f EXCEPT !.pc = "derived",
                         !.unstake_account = Some(unstake_account(f.storage_account_key)),
                         !.unstake_info = Some(unstake_info(f.storage_account_key)),
                         !.owner_ata = Some(get_associated_token_address(
                                 Unwrap(f.selected_account).owner_1, TOKEN_MINT)),
                         !.stake_account = Some(stake_account(f.storage_account_key)),
                         !.emissions_ata = Some(get_associated_token_address(
                                                    EMISSIONS, TOKEN_MINT)),
                         !.trace = Append(@, Event("derive", TRUE))]]
    /\ UNCHANGED <<client, chain, rpc, started>>

\* let (unstake_account, _) = derived_addresses::unstake_account(&storage_account_key);
\* let (unstake_info, _) = derived_addresses::unstake_info(&storage_account_key);
\* let owner_ata = get_associated_token_address(&wallet_pubkey, &TOKEN_MINT);
\* let (stake_account, _) = derived_addresses::stake_account(&storage_account_key);
\* let emeissions_ata = get_associated_token_address(&EMISSIONS, &TOKEN_MINT);
ReduceStorage_Derive(t) ==
    /\ frame[t].pc = "fetched"
    /\ frame[t].op = "reduce_storage"
    /\ LET f == frame[t]
       IN  frame' = [frame EXCEPT ![t] =
               [f EXCEPT !.pc = "derived",
                         !.unstake_account = Some(unstake_account(f.storage_account_key)),
                         !.unstake_info = Some(unstake_info(f.storage_account_key)),
                         !.owner_ata = Some(get_associated_token_address(
                                                Unwrap(f.wallet_pubkey), TOKEN_MINT)),
                         !.stake_account = Some(stake_account(f.storage_account_key)),
                         !.emissions_ata = Some(get_associated_token_address(
                                                    EMISSIONS, TOKEN_MINT)),
                         !.trace = Append(@, Event("derive", TRUE))]]
    /\ UNCHANGED <<client, chain, rpc, started>>

\* The account list filled from a key slot on the handle that the call
\* started last has written.
DecreaseStorageAccountsShared(f) ==
    LET latest == CHOOSE u \in Threads : \A v \in Threads : frame[v].seq <= frame[u].seq
        key == frame[latest].storage_account_key
    IN  [ storage_config |-> STORAGE_CONFIG_PDA,
          storage_account |-> key,
          unstake_info |-> Unwrap(f.unstake_info),
          unstake_account |-> Unwrap(f.unstake_account),
          owner |-> OwnerField(f),
          owner_ata |-> Unwrap(f.owner_ata),
          stake_account |-> Unwrap(f.stake_account),
          emissions_wallet |-> Unwrap(f.emissions_ata),
          token_mint |-> TOKEN_MINT,
          system_program |-> SystemProgramID,
          token_program |-> TokenProgramID,
          rent |-> RentID ]

\* shdw_drive_accounts::DecreaseStorage { .. }
DecreaseStorageAccounts(f) ==
    [ storage_config |-> STORAGE_CONFIG_PDA,
      storage_account |-> f.storage_account_key,
      unstake_info |-> Unwrap(f.unstake_info),
      unstake_account |-> Unwrap(f.unstake_account),
      owner |-> OwnerField(f),
      owner_ata |-> Unwrap(f.owner_ata),
      stake_account |-> Unwrap(f.stake_account),
      emissions_wallet |-> Unwrap(f.emissions_ata),
      token_mint |-> TOKEN_MINT,
      system_program |-> SystemProgramID,
      token_program |-> TokenProgramID,
      rent |-> RentID ]

\* The amount passed in units of 2^16 bytes (the lowest limb dropped).
DecreaseStorageArgsIn64K(f) ==
    [ix |-> "DecreaseStorage",
     remove_storage |-> Some(Tail(Unwrap(f.size_as_bytes)) \o <<0>>)]

\* shdw_drive_instructions::DecreaseStorage { remove_storage: Some(size_as_bytes) }
DecreaseStorageArgs(f) ==
    [ix |-> "DecreaseStorage", remove_storage |-> Some(Unwrap(f.size_as_bytes))]

\* let accounts = ..; let args = DecreaseStorage { .. }; let instruction = Instruction { .. };
ReduceStorage_Build(t) ==
    /\ frame[t].pc = "derived"
    /\ frame[t].op = "reduce_storage"
    /\ LET f == frame[t]
       IN  frame' = [frame EXCEPT ![t] =
               [f EXCEPT !.pc = "built",
                         !.instruction = Some(
                             [ program_id |-> PROGRAM_ADDRESS,
                               accounts |-> DecreaseStorageAccounts(f),
                               data |-> DecreaseStorageArgs(f) ]),
                         !.trace = Append(@, Event("build", TRUE))]]
    /\ UNCHANGED <<client, chain, rpc, started>>

\* let txn = Transaction::new_signed_with_payer(&[instruction], Some(&wallet_pubkey),
\*     &[&self.wallet], self.rpc_client.get_latest_blockhash()?);
ReduceStorage_Sign(t) ==
    /\ frame[t].pc = "built"
    /\ frame[t].op = "reduce_storage"
    /\ \E reply \in get_latest_blockhash :
        /\ rpc' = [rpc EXCEPT ![t] = Append(@, Request("get_latest_blockhash", <<>>, reply))]
        /\ LET f == frame[t]
           IN  frame' = [frame EXCEPT ![t] =
                   IF IsOk(reply)
                   THEN [f EXCEPT !.pc = "signed",
                                  !.txn = Some(new_signed_with_payer(
                                              <<Unwrap(f.instruction)>>, f.wallet_pubkey,
                                              <<client.wallet>>, reply.val[1])),
                                  !.trace = @ \o <<Event("blockhash", TRUE),
                                                   Event("sign", TRUE)>>]
                   ELSE Propagate(f, "blockhash", reply.val[1])]
    /\ UNCHANGED <<client, chain, started>>

\* let txn_result = self.rpc_client
\*     .send_and_confirm_transaction_with_spinner_and_commitment(&txn, Confirmed)?;
ReduceStorage_Send(t) ==
    /\ frame[t].pc = "signed"
    /\ frame[t].op = "reduce_storage"
    /\ LET f == frame[t]
           txn == Unwrap(f.txn)
       IN  \E reply \in send_and_confirm_transaction_with_spinner_and_commitment(
                            txn, CommitmentConfig) :
            /\ rpc' = [rpc EXCEPT ![t] = Append(@,
                    Request("send_and_confirm", <<txn, CommitmentConfig>>, reply))]
            /\ frame' = [frame EXCEPT ![t] =
                   IF IsOk(reply)
                   THEN [f EXCEPT !.pc = "confirmed",
                                  !.txn_result = reply.val,
                                  !.trace = Append(@, Event("submit", TRUE))]
                   ELSE Propagate(f, "submit", reply.val[1])]
    /\ UNCHANGED <<client, chain, started>>

\* Ok(ShdwDriveResponse { txid: txn_result.to_string() })
ReduceStorage_Respond(t) ==
    /\ frame[t].pc = "confirmed"
    /\ frame[t].op = "reduce_storage"
    /\ LET f == frame[t]
       IN  frame' = [frame EXCEPT ![t] =
               [f EXCEPT !.pc = "returned",
                         !.result = Some(Ok(ShdwDriveResponse(Unwrap(f.txn_result)))),
                         !.trace = Append(@, Event("respond", TRUE))]]
    /\ UNCHANGED <<client, chain, rpc, started>>

\* ------------------------------------------------------------ specification

Next ==
    \/ \E t \in Threads, key \in Keys : ClaimStake_Call(t, key)
    \/ \E t \in Threads : ClaimStake_Fetch(t)
    \/ \E t \in Threads : ClaimStake_Derive(t)
    \/ \E t \in Threads : ClaimStake_Build(t)
    \/ \E t \in Threads : ClaimStake_Sign(t)
    \/ \E t \in Threads : ClaimStake_Send(t)
    \/ \E t \in Threads : ClaimStake_Respond(t)
    \/ \E t \in Threads, key \in Keys, size \in Sizes : ReduceStorage_Call(t, key, size)
    \/ \E t \in Threads : ReduceStorage_Validate(t)
    \/ \E t \in Threads : ReduceStorage_Fetch(t)
    \/ \E t \in Threads : ReduceStorage_Derive(t)
    \/ \E t \in Threads : ReduceStorage_Build(t)
    \/ \E t \in Threads : ReduceStorage_Sign(t)
    \/ \E t \in Threads : ReduceStorage_Send(t)
    \/ \E t \in Threads : ReduceStorage_Respond(t)
    \/ \E key \in Keys, owner \in Owners : OwnerChange(key, owner)

Spec == Init /\ [][Next]_vars

\* -------------------------------------------------------- reading the state

StepsOf(f) == [i \in 1..Len(f.trace) |-> f.trace[i].step]

IsPrefix(a, b) == Len(a) <= Len(b) /\ \A i \in 1..Len(a) : a[i] = b[i]

RECURSIVE Without(_, _)
Without(seq, x) ==
    IF Len(seq) = 0 THEN <<>>
    ELSE IF seq[1] = x THEN Without(Tail(seq), x)
    ELSE <<seq[1]>> \o Without(Tail(seq), x)

\* The positions of a call's requests of one method.
RequestsOf(t, method) == {i \in 1..Len(rpc[t]) : rpc[t][i].method = method}

Returned(t) == frame[t].pc = "returned"
ReturnedOk(t) == Returned(t) /\ IsOk(Unwrap(frame[t].result))
ReturnedErr(t) == Returned(t) /\ IsErr(Unwrap(frame[t].result))

\* The five steps in the order the code runs them (reduce_storage validates
\* its size before them); step 4 is blockhash, sign, submit.
CodeOrder(op) ==
    (IF op = "reduce_storage" THEN <<"validate">> ELSE <<>>)
        \o <<"fetch", "derive", "build", "blockhash", "sign", "submit", "respond">>

\* The five steps in the order the specification lists them.
ListedOrder == <<"derive", "fetch", "build", "blockhash", "sign", "submit", "respond">>

\* ------------------------------------------------------------------ C1

\* C1 as stated: the steps of every call run in the listed order, derive (1)
\* before fetch (2), then build, sign and submit, respond, each at most once.
C1_ListedOrder ==
    \A t \in Threads : IsPrefix(Without(StepsOf(frame[t]), "validate"), ListedOrder)

\* C1 amended: the steps of every call run as one linear sequence in the order
\* fetch, derive, build, (blockhash, sign, submit), respond -- reduce_storage
\* validating its size first -- each at most once, and a step runs only when
\* every step before it has completed successfully.
C1_CodeOrder ==
    \A t \in Threads :
        LET f == frame[t]
        IN  /\ IsPrefix(StepsOf(f), CodeOrder(f.op))
            /\ \A i \in 1..Len(f.trace) : i < Len(f.trace) => f.trace[i].ok

\* Both functions have run all their steps and returned Ok.
C1_Witness ==
    \E t, u \in Threads :
        /\ ReturnedOk(t) /\ frame[t].op = "claim_stake"
        /\ StepsOf(frame[t]) = CodeOrder("claim_stake")
        /\ ReturnedOk(u) /\ frame[u].op = "reduce_storage"
        /\ StepsOf(frame[u]) = CodeOrder("reduce_storage")

\* ------------------------------------------------------------------ C2

\* C2: a call returns Ok(txid) only when its last request submitted the
\* transaction built in this call, at commitment Confirmed, the node answered
\* with a signature, and txid is that signature's base58 text; no request of
\* a call that returned Ok failed.
C2_OkOnlyAfterConfirmation ==
    \A t \in Threads :
        ReturnedOk(t) =>
            /\ Len(rpc[t]) > 0
            /\ \A i \in 1..Len(rpc[t]) : IsOk(rpc[t][i].reply)
            /\ LET last == rpc[t][Len(rpc[t])]
                   f == frame[t]
               IN  /\ last.method = "send_and_confirm"
                   /\ IsSome(f.txn)
                   /\ last.params[1] = Unwrap(f.txn)
                   /\ last.params[1].instructions = <<Unwrap(f.instruction)>>
                   /\ last.params[2].commitment = Confirmed
                   /\ Unwrap(f.result).val[1].txid = Base58(last.reply.val[1])

\* A call returned Ok with the text of a signature that starts with a zero
\* byte, and another returned the node's rejection.
C2_Witness ==
    \E t, u \in Threads :
        /\ ReturnedOk(t)
        /\ Unwrap(frame[t].result).val[1].txid = <<"1", "2">>
        /\ ReturnedErr(u)
        /\ Unwrap(frame[u].result).val[1] = "transaction rejected"

\* ------------------------------------------------------------------ C3

\* C3: reduce_storage with a byte count above 2^64 - 1 returns InvalidStorage
\* having asked the node nothing, and every byte count up to 2^64 - 1 passes
\* the validation.
C3_SizeValidation ==
    \A t \in Threads :
        LET f == frame[t]
        IN  (f.op = "reduce_storage" /\ f.pc # "start") =>
                IF Greater(f.size, U64MaxBytes)
                THEN /\ f.pc = "returned"
                     /\ f.result = Some(Err("InvalidStorage"))
                     /\ rpc[t] = <<>>
                ELSE /\ f.trace[1] = Event("validate", TRUE)
                     /\ f.result # Some(Err("InvalidStorage"))

\* 2^64 was refused and 2^64 - 1 went through to the node.
C3_Witness ==
    \E t, u \in Threads :
        /\ frame[t].op = "reduce_storage" /\ frame[t].size = TwoTo64
        /\ ReturnedErr(t) /\ rpc[t] = <<>>
        /\ frame[u].op = "reduce_storage" /\ frame[u].size = U64MaxBytes
        /\ ReturnedOk(u)

\* ------------------------------------------------------------------ C4

\* C4: a failed request is the last one of its call and the call has returned
\* exactly that error; no method is requested twice in a call; a transaction
\* is submitted only after the fetch and the blockhash request succeeded.
C4_NoRetry ==
    \A t \in Threads :
        /\ \A i \in 1..Len(rpc[t]) :
               IsErr(rpc[t][i].reply) =>
                   /\ i = Len(rpc[t])
                   /\ Returned(t)
                   /\ frame[t].result = Some(Err(rpc[t][i].reply.val[1]))
        /\ \A m \in {"get_storage_account", "get_latest_blockhash", "send_and_confirm"} :
               Cardinality(RequestsOf(t, m)) <= 1
        /\ \A i \in RequestsOf(t, "send_and_confirm") :
               /\ \E j \in 1..(i - 1) :
                      rpc[t][j].method = "get_storage_account" /\ IsOk(rpc[t][j].reply)
               /\ \E j \in 1..(i - 1) :
                      rpc[t][j].method = "get_latest_blockhash" /\ IsOk(rpc[t][j].reply)

\* One call failed at the fetch, another at the blockhash request.
C4_Witness ==
    \E t, u \in Threads :
        /\ ReturnedErr(t) /\ Len(rpc[t]) = 1
        /\ rpc[t][1].method = "get_storage_account"
        /\ ReturnedErr(u) /\ Len(rpc[u]) = 2
        /\ rpc[u][2].method = "get_latest_blockhash"

\* ------------------------------------------------------------------ C5

\* C5: a call that has built its instruction has fetched the storage account
\* exactly once, by the key of its argument, and the instruction's owner is
\* the owner_1 that this fetch returned.
C5_OwnerFromOwnFetch ==
    \A t \in Threads :
        IsSome(frame[t].instruction) =>
            /\ Cardinality(RequestsOf(t, "get_storage_account")) = 1
            /\ \A i \in RequestsOf(t, "get_storage_account") :
                   /\ rpc[t][i].params = <<frame[t].storage_account_key>>
                   /\ IsOk(rpc[t][i].reply)
                   /\ Unwrap(frame[t].instruction).accounts.owner
                          = rpc[t][i].reply.val[1].owner_1

\* An earlier call fetched one owner for a key, the owner changed on chain,
\* and a later call with the same key built its instruction with the new one.
C5_Witness ==
    \E t, u \in Threads :
        /\ Returned(u) /\ IsSome(frame[u].instruction)
        /\ frame[u].seq < frame[t].seq
        /\ frame[t].storage_account_key = frame[u].storage_account_key
        /\ IsSome(frame[t].instruction)
        /\ Unwrap(frame[t].instruction).accounts.owner
               # Unwrap(frame[u].instruction).accounts.owner
        /\ Unwrap(frame[t].instruction).accounts.owner
               = chain[frame[t].storage_account_key]

\* ------------------------------------------------------------------ C6

\* C6: no step of any call, successful or failed, changes the handle's wallet
\* or its node connection.
C6_HandleUnchanged == [][client' = client]_vars

\* Calls have succeeded and failed on the handle, and a further call is
\* running on it.
C6_Witness ==
    \E t, u \in Threads :
        /\ ReturnedErr(t) /\ Len(rpc[t]) = 3
        /\ frame[u].seq > frame[t].seq /\ frame[u].pc = "signed"
        /\ client = [wallet |-> [pubkey |-> "alice"], rpc_client |-> "node"]

\* ------------------------------------------------------------------ C7

\* C7: the unstake_account and unstake_info of every instruction are the
\* addresses derived from the call's storage account key alone, so that two
\* calls with one key carry the same two addresses, claim_stake or
\* reduce_storage, whatever owner each of them fetched.
C7_DerivedFromKeyOnly ==
    /\ \A t \in Threads :
           IsSome(frame[t].instruction) =>
               LET a == Unwrap(frame[t].instruction).accounts
               IN  /\ a.unstake_account = unstake_account(frame[t].storage_account_key)
                   /\ a.unstake_info = unstake_info(frame[t].storage_account_key)
    /\ \A t, u \in Threads :
           (/\ IsSome(frame[t].instruction) /\ IsSome(frame[u].instruction)
            /\ frame[t].storage_account_key = frame[u].storage_account_key) =>
               LET a == Unwrap(frame[t].instruction).accounts
                   b == Unwrap(frame[u].instruction).accounts
               IN  /\ a.unstake_account = b.unstake_account
                   /\ a.unstake_info = b.unstake_info

\* A claim_stake and a reduce_storage with one key built their instructions
\* from different fetched owners.
C7_Witness ==
    \E t, u \in Threads :
        /\ frame[t].op = "claim_stake" /\ frame[u].op = "reduce_storage"
        /\ IsSome(frame[t].instruction) /\ IsSome(frame[u].instruction)
        /\ frame[t].storage_account_key = frame[u].storage_account_key
        /\ Unwrap(frame[t].selected_account) # Unwrap(frame[u].selected_account)
        /\ Unwrap(frame[t].instruction).accounts.unstake_account
               = Unwrap(frame[u].instruction).accounts.unstake_account

\* ------------------------------------------------------------------ C8

\* The instruction a call builds from its own arguments and its own answers.
AloneInstruction(op, key, size, owner, wallet) ==
    LET common == [ storage_config |-> STORAGE_CONFIG_PDA,
                    storage_account |-> key,
                    unstake_info |-> unstake_info(key),
                    unstake_account |-> unstake_account(key),
                    owner |-> owner,
                    owner_ata |-> get_associated_token_address(wallet.pubkey, TOKEN_MINT),
                    token_mint |-> TOKEN_MINT,
                    system_program |-> SystemProgramID,
                    token_program |-> TokenProgramID ]
    IN  IF op = "claim_stake"
        THEN [ program_id |-> PROGRAM_ADDRESS, accounts |-> common,
               data |-> [ix |-> "ClaimStake", remove_storage |-> None] ]
        ELSE [ program_id |-> PROGRAM_ADDRESS,
               accounts |-> [ storage_config |-> common.storage_config,
                              storage_account |-> common.storage_account,
                              unstake_info |-> common.unstake_info,
                              unstake_account |-> common.unstake_account,
                              owner |-> common.owner,
                              owner_ata |-> common.owner_ata,
                              stake_account |-> stake_account(key),
                              emissions_wallet |->
                                  get_associated_token_address(EMISSIONS, TOKEN_MINT),
                              token_mint |-> common.token_mint,
                              system_program |-> common.system_program,
                              token_program |-> common.token_program,
                              rent |-> RentID ],
               data |-> [ix |-> "DecreaseStorage",
                         remove_storage |-> Some(SubSeq(size, 1, U64Limbs))] ]

\* C8: under every interleaving, the transaction a call signs, and the one the
\* node receives from it, is the transaction built from the call's own key and
\* size, the owner its own fetch returned and the blockhash its own request
\* returned.
C8_CallsIndependent ==
    \A t \in Threads :
        IsSome(frame[t].txn) =>
            LET f == frame[t]
                fetch == rpc[t][CHOOSE i \in RequestsOf(t, "get_storage_account") : TRUE]
                hash == rpc[t][CHOOSE i \in RequestsOf(t, "get_latest_blockhash") : TRUE]
                alone == [ instructions |->
                               <<AloneInstruction(f.op, f.storage_account_key, f.size,
                                     fetch.reply.val[1].owner_1, client.wallet)>>,
                           payer |-> Some(client.wallet.pubkey),
                           recent_blockhash |-> hash.reply.val[1],
                           signatures |-> <<client.wallet.pubkey>> ]
            IN  /\ Unwrap(f.txn) = alone
                /\ \A i \in RequestsOf(t, "send_and_confirm") : rpc[t][i].params[1] = alone

\* Two calls with different keys, sizes and fetched owners are both between
\* signing and sending.
C8_Witness ==
    \E t, u \in Threads :
        /\ frame[t].pc = "signed" /\ frame[u].pc = "signed"
        /\ frame[t].op = "reduce_storage" /\ frame[u].op = "reduce_storage"
        /\ frame[t].seq < frame[u].seq
        /\ frame[t].storage_account_key # frame[u].storage_account_key
        /\ frame[t].size # frame[u].size
        /\ Unwrap(frame[t].selected_account) # Unwrap(frame[u].selected_account)

\* ------------------------------------------------------------------ C9

\* C9: the instruction of reduce_storage carries remove_storage = Some(b) with
\* b exactly the byte count of `size`.
C9_RemoveStorageIsSize ==
    \A t \in Threads :
        (frame[t].op = "reduce_storage" /\ IsSome(frame[t].instruction)) =>
            LET d == Unwrap(frame[t].instruction).data
            IN  /\ IsSome(d.remove_storage)
                /\ U64AsBytes(Unwrap(d.remove_storage)) = get_bytes(frame[t].size)

\* reduce_storage with size = 1MB submitted an instruction carrying 1,000,000.
C9_Witness ==
    \E t \in Threads :
        /\ frame[t].op = "reduce_storage" /\ frame[t].size = OneMB
        /\ ReturnedOk(t)
        /\ Unwrap(frame[t].instruction).data.remove_storage = Some(<<16960, 15, 0, 0>>)

\* ------------------------------------------------------------------ C10

\* C10: in every signed transaction the payer and the only signer is the
\* handle's wallet, owner_ata is the wallet's token address for TOKEN_MINT and
\* owner is the fetched owner_1; owner_ata is the token address of owner
\* exactly when the wallet's key is the fetched owner_1.
C10_WalletPaysOwnerFetched ==
    \A t \in Threads :
        IsSome(frame[t].txn) =>
            LET txn == Unwrap(frame[t].txn)
                a == txn.instructions[1].accounts
                owner_1 == Unwrap(frame[t].selected_account).owner_1
            IN  /\ txn.payer = Some(client.wallet.pubkey)
                /\ txn.signatures = <<client.wallet.pubkey>>
                /\ a.owner_ata = get_associated_token_address(client.wallet.pubkey, TOKEN_MINT)
                /\ a.owner = owner_1
                /\ (a.owner_ata = get_associated_token_address(a.owner, TOKEN_MINT))
                       <=> (client.wallet.pubkey = owner_1)

\* A transaction whose owner is not the wallet was submitted and confirmed,
\* and so was one whose owner is the wallet.
C10_Witness ==
    \E t, u \in Threads :
        /\ ReturnedOk(t) /\ ReturnedOk(u)
        /\ Unwrap(frame[t].instruction).accounts.owner # client.wallet.pubkey
        /\ Unwrap(frame[u].instruction).accounts.owner = client.wallet.pubkey

====
